---- MODULE Spec2Model ----
(***************************************************************************)
(* A model of the gosqlite connection wrapper (src/sqlite.go) and of its   *)
(* database/sql driver adapter (src/driver.go): one connection, the        *)
(* transaction-depth counter, the engine's transaction and savepoint       *)
(* state, and one driver statement with its Rows.                          *)
(*                                                                         *)
(* The connection is used by one caller at a time, so every handler is one *)
(* action.  Conn.Transaction runs a callback, so it is two actions: the    *)
(* entry (BEGIN/SAVEPOINT, increment) and the return (the return statement *)
(* and the deferred cleanup); the body's own steps happen in between.      *)
(* The outcome of every engine call is chosen by the environment.          *)
(***************************************************************************)
EXTENDS Integers, Sequences, FiniteSets

VARIABLES db, nTransaction, frames, st, rows, faults, run, last

vars == <<db, nTransaction, frames, st, rows, faults, run, last>>

(***************************************************************************)
(* Bounds                                                                  *)
(***************************************************************************)
\* deepest nesting of Conn.Transaction calls the model explores
MaxDepth == 4
\* most engine calls the environment makes fail in one run
MaxFaults == 2
\* the same two bounds where the bodies also write rows (DataSpec)
MaxDataDepth == 2
MaxDataFaults == 1
\* and for the handlers of the driver adapter (DriverSpec)
MaxDriverFaults == 1
\* the parameters of the prepared statement and the Rows a client keeps
\* open at a time
NumParams == 1
MaxOpenRows == 2
\* the progress-hook polls one statement run lasts at most (CancelSpec)
MaxPolls == 2

(***************************************************************************)
(* Program constants                                                       *)
(***************************************************************************)
Deferred == 0
Immediate == 1
Exclusive == 2
TransactionTypes == {Deferred, Immediate, Exclusive}

SQLITE_OK == 0
ErrError == 1
ErrBusy == 5
ErrInterrupt == 9
ErrMisuse == 21
ErrRange == 25
\* the code of the errors of the wrapper itself
ErrSpecific == -1
\* nTransaction is a uint8
Uint8 == 256

(***************************************************************************)
(* Errors.  A Go error is modelled by its dynamic type, its code and the   *)
(* statement it comes from.  Conn.error builds a ConnError VALUE.          *)
(***************************************************************************)
Nil == [type |-> "nil", code |-> 0, msg |-> "-"]

error(rv, details) ==
    IF rv = SQLITE_OK THEN Nil
    ELSE [type |-> "ConnError", code |-> rv, msg |-> details]

\* what a transaction body can return: nil, an ordinary application error,
\* the ConnError value of an engine call that failed in the body, or a
\* pointer to a ConnError the body built itself
AppError == [type |-> "error", code |-> 0, msg |-> "app"]
BodyConnError == error(ErrError, "INSERT")
BodyPtrError == [type |-> "*ConnError", code |-> 0, msg |-> "app"]
BodyErrors == {Nil, AppError, BodyConnError, BodyPtrError}

\* err.(*ConnError): the type assertion of the deferred cleanup
IsPtrConnError(err) == err.type = "*ConnError"

(***************************************************************************)
(* strconv.Itoa: the decimal digits of n, most significant first           *)
(***************************************************************************)
RECURSIVE Itoa(_)
Itoa(n) == IF n < 10 THEN <<n>> ELSE Itoa(n \div 10) \o <<n % 10>>

(***************************************************************************)
(* SQL statements sent through sqlite3_exec                                *)
(***************************************************************************)
Sql(verb, arg) == [verb |-> verb, arg |-> arg]
NoArg == <<>>
BeginVerbs == {"BEGIN", "BEGIN IMMEDIATE", "BEGIN EXCLUSIVE"}

(***************************************************************************)
(* The engine, as far as sqlite3_exec and sqlite3_get_autocommit show it:  *)
(* autocommit flag, the savepoint stack (name and the content to restore), *)
(* the content at the start of the transaction, the visible content, and   *)
(* the two pragmas the adapter sets.  out is the environment's choice:     *)
(* "ok", "fail" (the statement fails and changes nothing) or "rollback"    *)
(* (a COMMIT fails and the engine rolls the transaction back itself).      *)
(***************************************************************************)
Outcomes == {"ok", "fail", "rollback"}
\* the outcomes of a statement that is not a COMMIT
OkFail == {"ok", "fail"}

\* index of the most recent savepoint with this name, 0 if there is none
FindSavepoint(sp, name) ==
    LET hits == {i \in 1..Len(sp) : sp[i].name = name}
    IN  IF hits = {} THEN 0 ELSE CHOOSE i \in hits : \A j \in hits : j <= i

EndTransaction(e, content) ==
    [e EXCEPT !.autocommit = TRUE, !.sp = <<>>, !.spTx = FALSE,
              !.data = content, !.base = content]

sqlite3_exec(e, sql, out) ==
    IF ~e.handle THEN [eng |-> e, rv |-> ErrMisuse]
    ELSE IF out = "fail" \/ (out = "rollback" /\ sql.verb # "COMMIT")
    THEN [eng |-> e, rv |-> ErrBusy]
    ELSE IF out = "rollback" /\ ~e.autocommit
    THEN [eng |-> EndTransaction(e, e.base), rv |-> ErrBusy]
    ELSE CASE sql.verb \in BeginVerbs ->
              IF ~e.autocommit THEN [eng |-> e, rv |-> ErrError]
              ELSE [eng |-> [e EXCEPT !.autocommit = FALSE, !.base = e.data,
                                      !.sp = <<>>, !.spTx = FALSE],
                    rv |-> SQLITE_OK]
           [] sql.verb = "COMMIT" ->
              IF e.autocommit THEN [eng |-> e, rv |-> ErrError]
              ELSE [eng |-> EndTransaction(e, e.data), rv |-> SQLITE_OK]
           [] sql.verb = "ROLLBACK" ->
              IF e.autocommit THEN [eng |-> e, rv |-> ErrError]
              ELSE [eng |-> EndTransaction(e, e.base), rv |-> SQLITE_OK]
           [] sql.verb = "SAVEPOINT" ->
              IF e.autocommit
              THEN [eng |-> [e EXCEPT !.autocommit = FALSE, !.base = e.data,
                                      !.spTx = TRUE,
                                      !.sp = <<[name |-> sql.arg, snap |-> e.data]>>],
                    rv |-> SQLITE_OK]
              ELSE [eng |-> [e EXCEPT !.sp = Append(@, [name |-> sql.arg,
                                                        snap |-> e.data])],
                    rv |-> SQLITE_OK]
           [] sql.verb = "RELEASE" ->
              LET i == FindSavepoint(e.sp, sql.arg)
              IN  IF e.autocommit \/ i = 0 THEN [eng |-> e, rv |-> ErrError]
                  ELSE IF i = 1 /\ e.spTx
                  THEN [eng |-> EndTransaction(e, e.data), rv |-> SQLITE_OK]
                  ELSE [eng |-> [e EXCEPT !.sp = SubSeq(@, 1, i - 1)],
                        rv |-> SQLITE_OK]
           [] sql.verb = "ROLLBACK TO" ->
              LET i == FindSavepoint(e.sp, sql.arg)
              IN  IF e.autocommit \/ i = 0 THEN [eng |-> e, rv |-> ErrError]
                  ELSE [eng |-> [e EXCEPT !.sp = SubSeq(@, 1, i),
                                          !.data = e.sp[i].snap],
                        rv |-> SQLITE_OK]
           [] sql.verb = "PRAGMA query_only=true" ->
              [eng |-> [e EXCEPT !.queryOnly = TRUE], rv |-> SQLITE_OK]
           [] sql.verb = "PRAGMA query_only=false" ->
              [eng |-> [e EXCEPT !.queryOnly = FALSE], rv |-> SQLITE_OK]
           [] sql.verb = "PRAGMA read_uncommitted=1" ->
              [eng |-> [e EXCEPT !.readUncommitted = TRUE], rv |-> SQLITE_OK]
           [] sql.verb = "PRAGMA read_uncommitted=0" ->
              [eng |-> [e EXCEPT !.readUncommitted = FALSE], rv |-> SQLITE_OK]
           [] sql.verb = "INSERT" ->
              [eng |-> [e EXCEPT !.data = @ \cup {sql.arg[1]},
                                 !.base = IF e.autocommit
                                          THEN e.data \cup {sql.arg[1]} ELSE @],
                    rv |-> SQLITE_OK]
           [] OTHER -> [eng |-> e, rv |-> SQLITE_OK]

GetAutocommit(e) == e.autocommit

(***************************************************************************)
(* Conn: every operation returns the engine after it, the error it returns *)
(* and the native calls it made, each with its result code and the         *)
(* autocommit flag right after it.                                         *)
(***************************************************************************)
\* F(x), x evaluated once
Bind(x, F(_)) == CHOOSE y \in {F(v) : v \in {x}} : TRUE

\* inj: the result is a failure the environment injected
Call(sql, rv, auto, inj) == [sql |-> sql, rv |-> rv, auto |-> auto, inj |-> inj]

FastExec(e, sql, out) ==
    Bind(sqlite3_exec(e, sql, out), LAMBDA r :
        [eng |-> r.eng, err |-> error(r.rv, sql.verb),
         sent |-> <<Call(sql, r.rv, r.eng.autocommit, e.handle /\ r.rv = ErrBusy)>>])

\* panic(...): the call does not return; the value stands for the panic that
\* unwinds the caller
Panic(msg) == [type |-> "panic", code |-> 0, msg |-> msg]

\* as BeginTransaction, any other type taken as deferred
BeginTransactionLenient(e, t, out) ==
    IF t = Immediate THEN FastExec(e, Sql("BEGIN IMMEDIATE", NoArg), out)
    ELSE IF t = Exclusive THEN FastExec(e, Sql("BEGIN EXCLUSIVE", NoArg), out)
    ELSE FastExec(e, Sql("BEGIN", NoArg), out)

BeginTransaction(e, t, out) ==
    IF t = Deferred THEN FastExec(e, Sql("BEGIN", NoArg), out)
    ELSE IF t = Immediate THEN FastExec(e, Sql("BEGIN IMMEDIATE", NoArg), out)
    ELSE IF t = Exclusive THEN FastExec(e, Sql("BEGIN EXCLUSIVE", NoArg), out)
    ELSE [eng |-> e, err |-> Panic("Unsupported transaction type"),
          sent |-> <<>>]

Rollback(e, out) == FastExec(e, Sql("ROLLBACK", NoArg), out)

\* as Commit, a failed ROLLBACK taking the place of the COMMIT error
CommitMasked(e, o1, o2) ==
    Bind(FastExec(e, Sql("COMMIT", NoArg), o1), LAMBDA r1 :
        IF r1.err # Nil /\ ~GetAutocommit(r1.eng)
        THEN Bind(Rollback(r1.eng, o2), LAMBDA r2 :
                 [eng |-> r2.eng, err |-> IF r2.err # Nil THEN r2.err ELSE r1.err,
                  sent |-> r1.sent \o r2.sent])
        ELSE r1)

Commit(e, o1, o2) ==
    Bind(FastExec(e, Sql("COMMIT", NoArg), o1), LAMBDA r1 :
        IF r1.err # Nil /\ ~GetAutocommit(r1.eng)
        THEN Bind(Rollback(r1.eng, o2), LAMBDA r2 :
                 [eng |-> r2.eng, err |-> r1.err, sent |-> r1.sent \o r2.sent])
        ELSE r1)

Savepoint(e, name, out) == FastExec(e, Sql("SAVEPOINT", name), out)
ReleaseSavepoint(e, name, out) == FastExec(e, Sql("RELEASE", name), out)
RollbackSavepoint(e, name, out) == FastExec(e, Sql("ROLLBACK TO", name), out)

(***************************************************************************)
(* Conn.Transaction.  TransactionBegin is the code before the body, up to  *)
(* the increment; TransactionDefer is the deferred function; the value     *)
(* Transaction returns is fixed by "return err" before the deferred        *)
(* function runs (the result is not a named result), so what the deferred  *)
(* function assigns to err afterwards stays in the local variable.         *)
(***************************************************************************)
\* every value a TransactionType (a uint8) can have is one of the three or
\* like one of these two
OtherTypes == {Exclusive + 1, Uint8 - 1}

Inc(n) == (n + 1) % Uint8
Dec(n) == (n + Uint8 - 1) % Uint8

\* as TransactionBegin, without the "if err != nil { return err }"
TransactionBeginUnchecked(e, n, t, out) ==
    Bind(IF n = 0 THEN BeginTransaction(e, t, out)
         ELSE Savepoint(e, Itoa(n), out), LAMBDA r :
        [eng |-> r.eng, err |-> Nil, sent |-> r.sent, n |-> Inc(n), incs |-> 1])

TransactionBegin(e, n, t, out) ==
    Bind(IF n = 0 THEN BeginTransaction(e, t, out)
         ELSE Savepoint(e, Itoa(n), out), LAMBDA r :
        IF r.err # Nil
        THEN [eng |-> r.eng, err |-> r.err, sent |-> r.sent, n |-> n, incs |-> 0]
        ELSE [eng |-> r.eng, err |-> Nil, sent |-> r.sent, n |-> Inc(n), incs |-> 1])

\* as DeferRollback, always rolling the whole transaction back
DeferRollbackAll(e, n, err, o1, o2) ==
    Bind(Rollback(e, o1), LAMBDA r : [eng |-> r.eng, err |-> err, sent |-> r.sent])

\* the branch of the deferred function taken when the body failed
DeferRollback(e, n, err, o1, o2) ==
    IF n = 0 \/ IsPtrConnError(err)
    THEN Bind(Rollback(e, o1), LAMBDA r :
             [eng |-> r.eng, err |-> err, sent |-> r.sent])
    ELSE Bind(RollbackSavepoint(e, Itoa(n), o1), LAMBDA r1 :
             IF r1.err # Nil
             THEN [eng |-> r1.eng, err |-> err, sent |-> r1.sent]
             ELSE Bind(ReleaseSavepoint(r1.eng, Itoa(n), o2), LAMBDA r2 :
                      [eng |-> r2.eng, err |-> err, sent |-> r1.sent \o r2.sent]))

\* as DeferCommit, the savepoint named by the depth before the decrement
DeferCommitStaleName(e, n, o1, o2, o3) ==
    Bind(IF n = 0 THEN Commit(e, o1, o2)
         ELSE ReleaseSavepoint(e, Itoa(Inc(n)), o1), LAMBDA r1 :
        IF r1.err # Nil
        THEN Bind(Rollback(r1.eng, o3), LAMBDA r2 :
                 [eng |-> r2.eng, err |-> r1.err, sent |-> r1.sent \o r2.sent])
        ELSE [eng |-> r1.eng, err |-> Nil, sent |-> r1.sent])

\* the branch of the deferred function taken when the body returned nil
DeferCommit(e, n, o1, o2, o3) ==
    Bind(IF n = 0 THEN Commit(e, o1, o2)
         ELSE ReleaseSavepoint(e, Itoa(n), o1), LAMBDA r1 :
        IF r1.err # Nil
        THEN Bind(Rollback(r1.eng, o3), LAMBDA r2 :
                 [eng |-> r2.eng, err |-> r1.err, sent |-> r1.sent \o r2.sent])
        ELSE [eng |-> r1.eng, err |-> Nil, sent |-> r1.sent])

\* as DeferDec, the decrement forgotten
DeferDecForgotten(n) == [n |-> n, decs |-> 0]

\* c.nTransaction-- at the head of the deferred function
DeferDec(n) == [n |-> Dec(n), decs |-> 1]

\* as TransactionDefer, the decrement made on the commit path only
TransactionDeferDecOnCommit(e, n, err, o1, o2, o3) ==
    IF err # Nil
    THEN Bind(DeferRollback(e, n, err, o1, o2), LAMBDA r :
             [eng |-> r.eng, n |-> n, decs |-> 0, err |-> r.err, sent |-> r.sent])
    ELSE Bind(DeferCommit(e, Dec(n), o1, o2, o3), LAMBDA r :
             [eng |-> r.eng, n |-> Dec(n), decs |-> 1, err |-> r.err,
              sent |-> r.sent])

TransactionDefer(e, n, err, o1, o2, o3) ==
    Bind(DeferDec(n), LAMBDA d :
        Bind(IF err # Nil THEN DeferRollback(e, d.n, err, o1, o2)
             ELSE DeferCommit(e, d.n, o1, o2, o3), LAMBDA r :
            [eng |-> r.eng, n |-> d.n, decs |-> d.decs, err |-> r.err,
             sent |-> r.sent]))

\* err = f(c); return err; then the deferred function
TransactionReturn(e, n, bodyErr, o1, o2, o3) ==
    LET ret == bodyErr
    IN  Bind(TransactionDefer(e, n, bodyErr, o1, o2, o3), LAMBDA d :
            [eng |-> d.eng, n |-> d.n, decs |-> d.decs, ret |-> ret,
             localErr |-> d.err, sent |-> d.sent])

(***************************************************************************)
(* The driver adapter (driver.go), connection level.                       *)
(***************************************************************************)
ErrBadConn == [type |-> "driver.ErrBadConn", code |-> 0, msg |-> "bad connection"]
\* errors.New and fmt.Errorf
ErrorsNew(msg) == [type |-> "error", code |-> 0, msg |-> msg]
\* ConnError{c: c.c}, the value that carries the handle out of Exec("unwrap")
UnwrapError == [type |-> "ConnError", code |-> 0, msg |-> "handle"]

\* Conn.specificError
specificError(msg) == [type |-> "ConnError", code |-> ErrSpecific, msg |-> msg]

IsClosed(e) == ~e.handle

\* r1 then r2, r2 working on the engine r1 left
Then(r1, r2) == [eng |-> r2.eng, err |-> r2.err, sent |-> r1.sent \o r2.sent]
Return(e, err) == [eng |-> e, err |-> err, sent |-> <<>>]

\* Conn.SetQueryOnly("", on): PRAGMA query_only
SetQueryOnly(e, on, out) ==
    FastExec(e, Sql(IF on THEN "PRAGMA query_only=true"
                    ELSE "PRAGMA query_only=false", NoArg), out)

IsolationLevels ==
    {"LevelDefault", "LevelReadUncommitted", "LevelReadCommitted",
     "LevelSerializable"}
TxOptions == [Isolation : IsolationLevels, ReadOnly : BOOLEAN]

DriverBegin(e, out) ==
    IF IsClosed(e) THEN Return(e, ErrBadConn)
    ELSE BeginTransaction(e, Deferred, out)

\* as conn.BeginTx with the default options, without the look at the
\* autocommit mode
DriverBeginTxNested(e, opts, o1, o2, o3) ==
    IF IsClosed(e) THEN Return(e, ErrBadConn)
    ELSE LET q == SetQueryOnly(e, opts.ReadOnly, o1)
         IN  IF q.err # Nil THEN q
             ELSE LET p == Then(q, FastExec(q.eng,
                                   Sql("PRAGMA read_uncommitted=0", NoArg), o2))
                  IN  IF p.err # Nil THEN p
                      ELSE Then(p, DriverBegin(p.eng, o3))

\* conn.BeginTx
DriverBeginTx(e, opts, o1, o2, o3) ==
    IF IsClosed(e) THEN Return(e, ErrBadConn)
    ELSE IF ~GetAutocommit(e)
    THEN Return(e, ErrorsNew("Nested transcations are not supported"))
    ELSE LET q == SetQueryOnly(e, opts.ReadOnly, o1)
         IN  IF q.err # Nil THEN q
             ELSE IF opts.Isolation \in {"LevelDefault", "LevelSerializable"}
             THEN LET p == Then(q, FastExec(q.eng,
                                   Sql("PRAGMA read_uncommitted=0", NoArg), o2))
                  IN  IF p.err # Nil THEN p
                      ELSE Then(p, DriverBegin(p.eng, o3))
             ELSE IF opts.Isolation = "LevelReadUncommitted"
             THEN LET p == Then(q, FastExec(q.eng,
                                   Sql("PRAGMA read_uncommitted=1", NoArg), o2))
                  IN  IF p.err # Nil THEN p
                      ELSE Then(p, DriverBegin(p.eng, o3))
             ELSE Then(q, Return(q.eng, ErrorsNew("Isolation level is not supported.")))

DriverCommit(e, o1, o2) == Commit(e, o1, o2)
DriverRollback(e, out) == Rollback(e, out)

\* conn.Exec without arguments: the queries a client sends
Queries == {"unwrap", "UPDATE"}

\* as conn.Exec, "unwrap" sent to the engine like any other text
DriverExecPlain(e, query, out) ==
    IF IsClosed(e) THEN Return(e, ErrBadConn)
    ELSE FastExec(e, Sql(query, NoArg), out)

\* conn.Exec without arguments
DriverExec(e, query, out) ==
    IF IsClosed(e) THEN Return(e, ErrBadConn)
    ELSE IF query = "unwrap" THEN Return(e, UnwrapError)
    ELSE FastExec(e, Sql(query, NoArg), out)

DriverPing(e, out) ==
    IF IsClosed(e) THEN Return(e, ErrBadConn)
    ELSE DriverExec(e, "PRAGMA schema_verion", out)

(***************************************************************************)
(* The driver adapter, statements and rows.  st is the driver stmt the     *)
(* client holds (its native statement, rowsRef, pendingClose); rows are    *)
(* the rowsImpl values the client has not closed.  The native statement    *)
(* layer (Stmt) is modelled by what the engine documents: a bind needs an  *)
(* index in range and a statement that is not being stepped.  A statement  *)
(* is "open", "finalized" (Stmt.Finalize released it) or "dangling"        *)
(* (Conn.Close finalized the native statement under it).  A call on a      *)
(* statement that is not open is undefined, ub being the result it happens *)
(* to give; Stmt.Finalize on a statement already finalized does nothing.   *)
(* finalizes counts the native finalize calls on the statement (history).  *)
(***************************************************************************)
NoStmt ==
    [state |-> "none", rowsRef |-> FALSE, pendingClose |-> FALSE,
     bound |-> [i \in 1..NumParams |-> "null"], pos |-> "reset", finalizes |-> 0]

\* the values a client binds; "null" in bound is a parameter with no value
Values == {"a", "b"}
\* a driver.NamedValue; Name 0 is the empty name, Name k the name of
\* parameter k
NamedValue(name, ordinal, value) ==
    [Name |-> name, Ordinal |-> ordinal, Value |-> value]

Native(fn, rv) == Call(Sql(fn, NoArg), rv, FALSE, FALSE)
UbResult(ub) == IF ub = "ok" THEN SQLITE_OK ELSE ErrMisuse

\* the result of a statement-level handler
R(e, s, rw, err, sent) ==
    [eng |-> e, st |-> s, rows |-> rw, err |-> err, sent |-> sent]

\* Stmt.BindByIndex
BindByIndex(s, index, value, ub) ==
    IF s.state # "open"
    THEN [st |-> s, err |-> error(UbResult(ub), "bind"),
          sent |-> <<Native("sqlite3_bind", UbResult(ub))>>]
    ELSE IF s.pos # "reset"
    THEN [st |-> s, err |-> error(ErrMisuse, "bind"),
          sent |-> <<Native("sqlite3_bind", ErrMisuse)>>]
    ELSE IF index \notin 1..NumParams
    THEN [st |-> s, err |-> error(ErrRange, "bind"),
          sent |-> <<Native("sqlite3_bind", ErrRange)>>]
    ELSE [st |-> [s EXCEPT !.bound[index] = value], err |-> Nil,
          sent |-> <<Native("sqlite3_bind", SQLITE_OK)>>]

\* Stmt.BindParameterIndex
BindParameterIndex(s, name) ==
    IF name \in 1..NumParams THEN [index |-> name, err |-> Nil]
    ELSE [index |-> 0, err |-> ErrorsNew("invalid parameter name")]

\* stmt.bind: args[i] goes to parameter i, up to the first error
RECURSIVE BindFrom(_, _, _, _)
BindFrom(s, args, i, ub) ==
    IF i > Len(args) THEN [st |-> s, err |-> Nil, sent |-> <<>>]
    ELSE LET b == BindByIndex(s, i, args[i], ub)
         IN  IF b.err # Nil THEN b
             ELSE LET rest == BindFrom(b.st, args, i + 1, ub)
                  IN  [st |-> rest.st, err |-> rest.err,
                       sent |-> b.sent \o rest.sent]

bind(s, args, ub) == BindFrom(s, args, 1, ub)

\* stmt.bindNamedValue
RECURSIVE BindNamedFrom(_, _, _, _)
BindNamedFrom(s, args, i, ub) ==
    IF i > Len(args) THEN [st |-> s, err |-> Nil, sent |-> <<>>]
    ELSE LET v == args[i]
             ix == IF v.Name = 0 THEN [index |-> v.Ordinal, err |-> Nil]
                   ELSE BindParameterIndex(s, v.Name)
         IN  IF ix.err # Nil THEN [st |-> s, err |-> ix.err, sent |-> <<>>]
             ELSE LET b == BindByIndex(s, ix.index, v.Value, ub)
                  IN  IF b.err # Nil THEN b
                      ELSE LET rest == BindNamedFrom(b.st, args, i + 1, ub)
                           IN  [st |-> rest.st, err |-> rest.err,
                                sent |-> b.sent \o rest.sent]

bindNamedValue(s, args, ub) == BindNamedFrom(s, args, 1, ub)

(***************************************************************************)
(* Cancellation.  A context is "live" or "cancelled"; the hook of the      *)
(* connection is "none" or the context Conn.ProgressHandler installed with *)
(* progressHandler.  One run of a statement lasts exec.polls polls of the   *)
(* hook, and a live context is cancelled just before poll exec.cancelAt     *)
(* (after the run if cancelAt > polls).                                    *)
(***************************************************************************)
Contexts == {"live", "cancelled"}
Runs == [polls : 0..MaxPolls, cancelAt : 1..(MaxPolls + 1)]
\* a statement that ends before the first poll
ShortRun == [polls |-> 0, cancelAt |-> 1]

\* Conn.ProgressHandler(progressHandler, 100, ctx) and (nil, 0, nil)
ProgressHandler(e, payload) == [e EXCEPT !.hook = payload]

\* as progressHandler, Done() not looked at
progressHandlerDeaf(p) == FALSE

\* progressHandler: p.ctx is "p is a context.Context", p.done "its Done()
\* channel is closed"
progressHandler(p) ==
    IF p.ctx THEN (IF p.done THEN TRUE ELSE FALSE) ELSE FALSE

\* the polls of a run from poll k on, the hook being installed: the poll at
\* which the hook asks for the abort, 0 if none does
RECURSIVE PollFrom(_, _, _)
PollFrom(hook, k, exec) ==
    IF k > exec.polls THEN 0
    ELSE IF progressHandler([ctx |-> TRUE,
                             done |-> (hook = "cancelled" \/ k >= exec.cancelAt)])
    THEN k
    ELSE PollFrom(hook, k + 1, exec)

Abort(e, exec) == IF e.hook = "none" THEN 0 ELSE PollFrom(e.hook, 1, exec)

\* the context once the run is over
CtxAfter(ctx, exec) ==
    IF ctx = "live" /\ exec.cancelAt <= exec.polls THEN "cancelled" ELSE ctx

\* sqlite3_step and the polls it made (none without a hook)
Step(e, exec, rv, inj) ==
    LET a == Abort(e, exec)
        polled == IF e.hook = "none" THEN 0 ELSE IF a > 0 THEN a ELSE exec.polls
    IN  Call(Sql("sqlite3_step", <<polled>>), rv, FALSE, inj)

\* Stmt.exec: step to completion, then reset
StmtExecNative(e, s, out, ub, exec) ==
    IF s.state # "open"
    THEN [st |-> s, err |-> error(UbResult(ub), "step"),
          sent |-> <<Native("sqlite3_step", UbResult(ub))>>]
    ELSE IF Abort(e, exec) > 0
    THEN [st |-> [s EXCEPT !.pos = "reset"], err |-> error(ErrInterrupt, "step"),
          sent |-> <<Step(e, exec, ErrInterrupt, FALSE)>>]
    ELSE IF out = "ok"
    THEN [st |-> [s EXCEPT !.pos = "reset"], err |-> Nil,
          sent |-> <<Step(e, exec, SQLITE_OK, FALSE)>>]
    ELSE [st |-> [s EXCEPT !.pos = "reset"], err |-> error(ErrBusy, "step"),
          sent |-> <<Step(e, exec, ErrBusy, TRUE)>>]

\* Stmt.Next: one step; step is "row", "done" or "fail"
StmtNext(e, s, step, ub, exec) ==
    IF s.state # "open"
    THEN [st |-> s, ok |-> FALSE, err |-> error(UbResult(ub), "step"),
          sent |-> <<Native("sqlite3_step", UbResult(ub))>>]
    ELSE IF Abort(e, exec) > 0
    THEN [st |-> [s EXCEPT !.pos = "done"], ok |-> FALSE,
          err |-> error(ErrInterrupt, "step"),
          sent |-> <<Step(e, exec, ErrInterrupt, FALSE)>>]
    ELSE IF step = "fail"
    THEN [st |-> [s EXCEPT !.pos = "done"], ok |-> FALSE,
          err |-> error(ErrBusy, "step"),
          sent |-> <<Step(e, exec, ErrBusy, TRUE)>>]
    ELSE [st |-> [s EXCEPT !.pos = step], ok |-> (step = "row"), err |-> Nil,
          sent |-> <<Step(e, exec, SQLITE_OK, FALSE)>>]

\* Stmt.Reset: step position and bindings cleared
StmtReset(s, ub) ==
    IF s.state # "open"
    THEN [st |-> s, err |-> error(UbResult(ub), "reset"),
          sent |-> <<Native("sqlite3_reset", UbResult(ub))>>]
    ELSE [st |-> [s EXCEPT !.pos = "reset", !.bound = NoStmt.bound], err |-> Nil,
          sent |-> <<Native("sqlite3_reset", SQLITE_OK)>>]

\* Stmt.Finalize
\* one more native finalize call on the statement (history, 2 is "many")
Finalized(s) ==
    [s EXCEPT !.state = "finalized", !.pos = "reset",
              !.finalizes = IF @ < 2 THEN @ + 1 ELSE 2]

StmtFinalize(s, ub) ==
    IF s.state = "finalized" THEN [st |-> s, err |-> Nil, sent |-> <<>>]
    ELSE IF s.state # "open"
    THEN [st |-> Finalized(s), err |-> error(UbResult(ub), "finalize"),
          sent |-> <<Native("sqlite3_finalize", UbResult(ub))>>]
    ELSE [st |-> Finalized(s), err |-> Nil,
          sent |-> <<Native("sqlite3_finalize", SQLITE_OK)>>]

\* Conn.Prepare, for the statement the client will hold
ConnPrepare(e, out) ==
    IF out = "ok"
    THEN [st |-> [NoStmt EXCEPT !.state = "open"], err |-> Nil,
          sent |-> <<Native("sqlite3_prepare", SQLITE_OK)>>]
    ELSE [st |-> NoStmt, err |-> error(ErrBusy, "prepare"),
          sent |-> <<Call(Sql("sqlite3_prepare", NoArg), ErrBusy, FALSE, TRUE)>>]

\* conn.Prepare
DriverPrepare(e, s, rw, out) ==
    IF IsClosed(e) THEN R(e, s, rw, ErrBadConn, <<>>)
    ELSE LET p == ConnPrepare(e, out)
         IN  IF p.err # Nil THEN R(e, s, rw, p.err, p.sent)
             ELSE R(e, p.st, rw, Nil, p.sent)

\* as stmt.Close, without the look at rowsRef
DriverStmtCloseNow(e, s, rw, ub) ==
    LET f == StmtFinalize(s, ub) IN R(e, f.st, rw, f.err, f.sent)

\* stmt.Close
DriverStmtClose(e, s, rw, ub) ==
    IF s.rowsRef THEN R(e, [s EXCEPT !.pendingClose = TRUE], rw, Nil, <<>>)
    ELSE LET f == StmtFinalize(s, ub) IN R(e, f.st, rw, f.err, f.sent)

\* stmt.Exec
DriverStmtExec(e, s, rw, args, out, ub, exec) ==
    LET b == bind(s, args, ub)
    IN  IF b.err # Nil THEN R(e, b.st, rw, b.err, b.sent)
        ELSE LET x == StmtExecNative(e, b.st, out, ub, exec)
             IN  R(e, x.st, rw, x.err, b.sent \o x.sent)

\* stmt.Query
DriverStmtQuery(e, s, rw, args, ub) ==
    IF s.rowsRef
    THEN R(e, s, rw, ErrorsNew("previously returned Rows still not closed"), <<>>)
    ELSE LET b == bind(s, args, ub)
         IN  IF b.err # Nil THEN R(e, b.st, rw, b.err, b.sent)
             ELSE R(e, [b.st EXCEPT !.rowsRef = TRUE],
                    Append(rw, [stmt |-> "st", ctx |-> "nil"]), Nil, b.sent)

\* as stmt.ExecContext, the hook uninstalled before the normal return only
DriverStmtExecContextNoDefer(e, s, rw, ctx, args, out, ub, exec) ==
    LET b == bindNamedValue(s, args, ub)
    IN  IF b.err # Nil THEN R(e, b.st, rw, b.err, b.sent)
        ELSE LET e1 == ProgressHandler(e, ctx)
                 x == StmtExecNative(e1, b.st, out, ub, exec)
             IN  IF x.err # Nil
                 THEN R(e1, x.st, rw, x.err, b.sent \o x.sent)
                 ELSE R(ProgressHandler(e1, "none"), x.st, rw, x.err,
                        b.sent \o x.sent)

\* stmt.ExecContext: the hook is installed once the binding succeeded, and
\* the deferred call uninstalls it on every return after that
DriverStmtExecContext(e, s, rw, ctx, args, out, ub, exec) ==
    LET b == bindNamedValue(s, args, ub)
    IN  IF b.err # Nil THEN R(e, b.st, rw, b.err, b.sent)
        ELSE LET e1 == ProgressHandler(e, ctx)
                 x == StmtExecNative(e1, b.st, out, ub, exec)
             IN  R(ProgressHandler(e1, "none"), x.st, rw, x.err,
                   b.sent \o x.sent)

\* stmt.QueryContext
DriverStmtQueryContext(e, s, rw, ctx, args, ub) ==
    LET b == bindNamedValue(s, args, ub)
    IN  IF b.err # Nil THEN R(e, b.st, rw, b.err, b.sent)
        ELSE R(e, [b.st EXCEPT !.rowsRef = TRUE],
               Append(rw, [stmt |-> "st", ctx |-> ctx]), Nil, b.sent)

EOF == [type |-> "io.EOF", code |-> 0, msg |-> "EOF"]

\* the statement a Rows steps: the client's, or the one conn.QueryContext
\* prepared for it (live until Conn.Close finalizes it)
TempStmt(e) ==
    [NoStmt EXCEPT !.state = IF e.temps THEN "open" ELSE "dangling"]
StmtOf(e, s, r) == IF r.stmt = "st" THEN s ELSE TempStmt(e)

\* rowsImpl.Next on the Rows rw[i]
\* (the context of the Rows is cancelled by the end of the run if the run
\* says so)
DriverRowsNext(e, s, rw, i, step, ub, exec) ==
    LET e1 == IF rw[i].ctx # "nil" THEN ProgressHandler(e, rw[i].ctx) ELSE e
        n == StmtNext(e1, StmtOf(e, s, rw[i]), step, ub, exec)
        e2 == IF rw[i].ctx # "nil" THEN ProgressHandler(e1, "none") ELSE e1
        s1 == IF rw[i].stmt = "st" THEN n.st ELSE s
        rw1 == [rw EXCEPT ![i].ctx = CtxAfter(@, exec)]
    IN  IF n.err # Nil THEN R(e2, s1, rw1, n.err, n.sent)
        ELSE IF ~n.ok THEN R(e2, s1, rw1, EOF, n.sent)
        ELSE R(e2, s1, rw1, Nil, n.sent)

\* as rowsImpl.Close, rowsRef left as it is
DriverRowsCloseKeepsRef(e, s, rw, i, ub) ==
    LET left == SubSeq(rw, 1, i - 1) \o SubSeq(rw, i + 1, Len(rw))
    IN  IF s.pendingClose
        THEN LET c == DriverStmtClose(e, s, left, ub)
             IN  R(e, c.st, left, c.err, c.sent)
        ELSE LET x == StmtReset(s, ub)
             IN  R(e, x.st, left, x.err, x.sent)

\* rowsImpl.Close of the Rows rw[i]
DriverRowsClose(e, s, rw, i, ub) ==
    LET left == SubSeq(rw, 1, i - 1) \o SubSeq(rw, i + 1, Len(rw))
    IN  IF rw[i].stmt = "st"
        THEN LET s1 == [s EXCEPT !.rowsRef = FALSE]
             IN  IF s1.pendingClose
                 THEN LET c == DriverStmtClose(e, s1, left, ub)
                      IN  R(e, c.st, left, c.err, c.sent)
                 ELSE LET x == StmtReset(s1, ub)
                      IN  R(e, x.st, left, x.err, x.sent)
        ELSE LET x == StmtReset(TempStmt(e), ub)
             IN  R(e, s, left, x.err, x.sent)

\* as Closing, the handle cleared whatever the native close reported
ClosingAnyway(e, rv) ==
    [EndTransaction(e, e.base) EXCEPT !.handle = FALSE, !.temps = FALSE]

\* the connection after the last native close of Conn.Close reported rv: the
\* handle is cleared after SQLITE_OK only
Closing(e, rv) ==
    IF rv = SQLITE_OK
    THEN [EndTransaction(e, e.base) EXCEPT !.handle = FALSE, !.temps = FALSE]
    ELSE e

\* Conn.Close on a handle: the statement cache is flushed, then the native
\* close, which reports busy while a native statement is live (o1 is its
\* result otherwise); after busy all the live statements are finalized, the
\* client's open one and the ones conn.ExecContext and conn.QueryContext
\* left, and the close is tried once more (out is the result of that try)
CloseHandle(e, s, rw, o1, out) ==
    LET flush == <<Native("stmtCache.flush", SQLITE_OK)>>
        fin == <<Native("sqlite3_finalize", SQLITE_OK)>>
    IN  IF s.state # "open" /\ ~e.temps
        THEN IF o1 = "ok"
             THEN R(Closing(e, SQLITE_OK), s, rw, Nil,
                    flush \o <<Native("sqlite3_close", SQLITE_OK)>>)
             ELSE R(Closing(e, ErrError), s, rw, error(ErrError, "Conn.Close"),
                    flush \o <<Call(Sql("sqlite3_close", NoArg), ErrError,
                                    FALSE, TRUE)>>)
        ELSE LET s1 == IF s.state = "open"
                       THEN [Finalized(s) EXCEPT !.state = "dangling"]
                       ELSE s
                 e1 == [e EXCEPT !.temps = FALSE]
                 calls == flush \o <<Native("sqlite3_close", ErrBusy)>>
                          \o (IF s.state = "open" THEN fin ELSE <<>>)
                          \o (IF e.temps THEN fin ELSE <<>>)
             IN  IF out = "ok"
                 THEN R(Closing(e1, SQLITE_OK), s1, rw, Nil,
                        calls \o <<Native("sqlite3_close", SQLITE_OK)>>)
                 ELSE R(Closing(e1, ErrBusy), s1, rw,
                        error(ErrBusy, "Conn.Close"),
                        calls \o <<Call(Sql("sqlite3_close", NoArg),
                                        ErrBusy, FALSE, TRUE)>>)

\* as Conn.Close, without the look at c.db
CloseAgain(e, s, rw, o1, out) == CloseHandle(e, s, rw, o1, out)

\* Conn.Close
Close(e, s, rw, o1, out) ==
    IF ~e.handle THEN R(e, s, rw, Nil, <<>>)
    ELSE CloseHandle(e, s, rw, o1, out)

\* conn.Close
DriverClose(e, s, rw, o1, out) == Close(e, s, rw, o1, out)

\* conn.ExecContext: a statement of its own, prepared, bound (no arguments
\* here), exec, and left as it is
DriverExecContext(e, s, rw, ctx, o1, o2) ==
    IF IsClosed(e) THEN R(e, s, rw, ErrBadConn, <<>>)
    ELSE LET p == ConnPrepare(e, o1)
         IN  IF p.err # Nil THEN R(e, s, rw, p.err, p.sent)
             ELSE LET x == DriverStmtExecContext(e, p.st, rw, ctx, <<>>, o2, "ok",
                                                 ShortRun)
                  IN  R([x.eng EXCEPT !.temps = TRUE], s, rw, x.err,
                        p.sent \o x.sent)

\* conn.QueryContext: a statement of its own, and the Rows on it
DriverQueryContext(e, s, rw, ctx, o1) ==
    IF IsClosed(e) THEN R(e, s, rw, ErrBadConn, <<>>)
    ELSE LET p == ConnPrepare(e, o1)
         IN  IF p.err # Nil THEN R(e, s, rw, p.err, p.sent)
             ELSE LET q == DriverStmtQueryContext(e, p.st, <<>>, ctx, <<>>, "ok")
                  IN  R([e EXCEPT !.temps = TRUE], s,
                        Append(rw, [stmt |-> "tmp", ctx |-> ctx]), q.err,
                        p.sent \o q.sent)

(***************************************************************************)
(* State.  db is the native connection, frames the stack of the            *)
(* Conn.Transaction calls whose body is running.  run and last are history *)
(* variables: run describes the outermost Conn.Transaction call under way  *)
(* (or the last one), last the operation that has just returned.           *)
(***************************************************************************)
NewEngine ==
    [handle |-> TRUE, autocommit |-> TRUE, sp |-> <<>>, spTx |-> FALSE,
     data |-> {}, base |-> {}, queryOnly |-> FALSE, readUncommitted |-> FALSE,
     temps |-> FALSE, hook |-> "none"]

NoRun == [allOk |-> TRUE, depth |-> 0]

NoLast ==
    [op |-> "Open", ret |-> Nil, sent |-> <<>>,
     begun |-> FALSE, bodyErr |-> Nil, localErr |-> Nil, entryN |-> 0,
     incs |-> 0, decs |-> 0, outerOpen |-> FALSE, entryData |-> {},
     bodyData |-> {}, pre |-> NewEngine, preSt |-> NoStmt, preRows |-> <<>>,
     wasClosed |-> FALSE, target |-> "none", ctx |-> "nil", exec |-> ShortRun,
     query |-> "", args |-> <<>>,
     opts |-> [Isolation |-> "LevelDefault", ReadOnly |-> FALSE]]

Depth == Len(frames)

\* a frame keeps outerOpen while the transaction that was open when the call
\* started has not been ended
Track(fs, e) ==
    [i \in DOMAIN fs |->
        [fs[i] EXCEPT !.outerOpen = @ /\ ~GetAutocommit(e)]]

Max(a, b) == IF a > b THEN a ELSE b

\* the failures the environment injected among these native calls
Injected(sent) == Cardinality({i \in DOMAIN sent : sent[i].inj})

Init ==
    /\ db = NewEngine
    /\ nTransaction = 0
    /\ frames = <<>>
    /\ st = NoStmt
    /\ rows = <<>>
    /\ faults = 0
    /\ run = NoRun
    /\ last = NoLast

\* Conn.Transaction, up to the call of the body
Enter(maxDepth, maxFaults) ==
    /\ Depth < maxDepth
    /\ \E t \in TransactionTypes, out \in OkFail :
        \E r \in {TransactionBegin(db, nTransaction, t, out)} :
          LET f == [entryN |-> nTransaction, entryData |-> db.data,
                    outerOpen |-> ~GetAutocommit(db), incs |-> r.incs]
          IN  /\ faults + Injected(r.sent) <= maxFaults
              /\ faults' = faults + Injected(r.sent)
              /\ db' = r.eng
              /\ nTransaction' = r.n
              /\ frames' = IF r.err # Nil THEN Track(frames, r.eng)
                           ELSE Track(Append(frames, f), r.eng)
              /\ run' = IF r.err # Nil THEN run
                        ELSE IF Depth = 0 THEN [allOk |-> TRUE, depth |-> 1]
                        ELSE [run EXCEPT !.depth = Max(@, Depth + 1)]
              /\ last' = [NoLast EXCEPT !.op = "TransactionEnter", !.ret = r.err,
                                        !.sent = r.sent, !.begun = (r.err = Nil),
                                        !.entryN = nTransaction, !.incs = r.incs]
    /\ UNCHANGED <<st, rows>>

\* the body returns and the deferred function runs
Exit(maxFaults) ==
    /\ Depth > 0
    /\ \E bodyErr \in BodyErrors, o1 \in Outcomes, o2 \in OkFail, o3 \in OkFail :
        \E r \in {TransactionReturn(db, nTransaction, bodyErr, o1, o2, o3)} :
          LET f == frames[Depth]
          IN  /\ faults + Injected(r.sent) <= maxFaults
              /\ faults' = faults + Injected(r.sent)
              /\ db' = r.eng
              /\ nTransaction' = r.n
              /\ frames' = Track(SubSeq(frames, 1, Depth - 1), r.eng)
              /\ run' = [run EXCEPT !.allOk = @ /\ bodyErr = Nil]
              /\ last' = [NoLast EXCEPT !.op = "Transaction", !.ret = r.ret,
                                        !.sent = r.sent, !.begun = TRUE,
                                        !.bodyErr = bodyErr, !.localErr = r.localErr,
                                        !.entryN = f.entryN, !.incs = f.incs,
                                        !.decs = r.decs, !.outerOpen = f.outerOpen,
                                        !.entryData = f.entryData,
                                        !.bodyData = db.data]
    /\ UNCHANGED <<st, rows>>

TransactionEnter == Enter(MaxDepth, MaxFaults)
TransactionExit == Exit(MaxFaults)

DataTransactionEnter == Enter(MaxDataDepth, MaxDataFaults)
DataTransactionExit == Exit(MaxDataFaults)

\* the body of a Conn.Transaction call writes a row through the connection
\* (each nesting level writes its own row)
BodyExec ==
    /\ Depth > 0
    /\ \E out \in OkFail :
        \E r \in {FastExec(db, Sql("INSERT", <<Depth>>), out)} :
              /\ faults + Injected(r.sent) <= MaxDataFaults
              /\ faults' = faults + Injected(r.sent)
              /\ db' = r.eng
              /\ frames' = Track(frames, r.eng)
              /\ last' = [NoLast EXCEPT !.op = "BodyExec", !.ret = r.err,
                                        !.sent = r.sent]
    /\ UNCHANGED <<nTransaction, run, st, rows>>

(***************************************************************************)
(* The client of the driver adapter: database/sql calls one handler at a   *)
(* time, outside any Conn.Transaction body.                                *)
(***************************************************************************)
\* the handlers whose properties compare the statement and the Rows before
\* the call with what the call left
StmtOps ==
    {"stmt.Query", "stmt.QueryContext", "stmt.Exec", "stmt.ExecContext",
     "stmt.Close", "rows.Close"}

\* pre, preSt and preRows keep the state before the handler; target is the
\* statement a Rows handler works on ("st", the client's, or "tmp"), ctx the
\* context the handler was given or its Rows holds ("nil" for none) as it
\* was when the handler was called, exec the run of the statement, query the
\* text conn.Exec was given, args the arguments of a statement handler
HandlerInfo(op, r, opts, target, ctx, exec, query, args, maxFaults) ==
    /\ Depth = 0
    /\ faults + Injected(r.sent) <= maxFaults
    /\ faults' = faults + Injected(r.sent)
    /\ db' = r.eng
    /\ st' = r.st
    /\ rows' = r.rows
    /\ last' = [NoLast EXCEPT !.op = op, !.ret = r.err, !.sent = r.sent,
                              !.pre = IF op \in {"conn.BeginTx", "conn.Exec",
                                              "Conn.BeginTransaction"}
                                      THEN db ELSE NewEngine,
                              !.preSt = IF op \in StmtOps THEN st ELSE NoStmt,
                              !.preRows = IF op \in StmtOps THEN rows ELSE <<>>,
                              !.wasClosed = IsClosed(db),
                              !.target = target,
                              !.ctx = ctx, !.exec = exec, !.query = query,
                              !.args = args,
                              !.opts = opts]
    /\ UNCHANGED <<nTransaction, frames, run>>

Handler(op, r, opts, target, maxFaults) ==
    HandlerInfo(op, r, opts, target, "nil", ShortRun, "", <<>>, maxFaults)

\* a handler that works on the connection alone
OnConn(r) == R(r.eng, st, rows, r.err, r.sent)
DriverWith(op, r, opts) == Handler(op, OnConn(r), opts, "none", MaxDriverFaults)
Driver(op, r) == Handler(op, OnConn(r), NoLast.opts, "none", MaxDriverFaults)
StmtHandler(op, r) == Handler(op, r, NoLast.opts, "st", MaxDriverFaults)
RowsHandler(op, r, target) == Handler(op, r, NoLast.opts, target, MaxDriverFaults)
RunHandler(op, r, target, ctx, exec, args) ==
    HandlerInfo(op, r, NoLast.opts, target, ctx, exec, "", args, MaxDriverFaults)
ExecHandler(r, query, maxFaults) ==
    HandlerInfo("conn.Exec", OnConn(r), NoLast.opts, "none", "nil", ShortRun,
                query, <<>>, maxFaults)

\* the results a call on the statement can give where the call is undefined
Ub(s) == IF s.state = "open" THEN {"ok"} ELSE OkFail

\* the arguments of a call: values for the first parameters, one more than
\* the statement has at most
Args == UNION {[1..n -> Values] : n \in 0..(NumParams + 1)}
\* the same as driver.NamedValue, by ordinal or by name
NamedArgs ==
    {[i \in DOMAIN a |-> NamedValue(0, i, a[i])] : a \in Args} \cup
    {[i \in DOMAIN a |-> NamedValue(i, i, a[i])] : a \in Args}
\* the arguments the client passes: one value for every argument, as many
\* arguments as the statement has parameters, fewer, or one too many, which
\* the binding refuses
OneValue == {a \in Args : \A i \in DOMAIN a : a[i] = "a"}
OneNamedValue == {a \in NamedArgs : \A i \in DOMAIN a : a[i].Value = "a"}
\* a context that is not cancelled, and statements that end before a poll
Uncancelled == {"live"}
ShortRuns == {ShortRun}

ConnBegin == \E out \in OkFail : Driver("conn.Begin", DriverBegin(db, out))

\* with the options of a plain Begin here; TxBeginTx draws all of them
ConnBeginTx ==
    \E opts \in {NoLast.opts}, o1 \in OkFail, o2 \in OkFail, o3 \in OkFail :
        DriverWith("conn.BeginTx", DriverBeginTx(db, opts, o1, o2, o3), opts)

ConnCommit ==
    \E o1 \in Outcomes, o2 \in OkFail :
        Driver("conn.Commit", DriverCommit(db, o1, o2))

ConnRollback == \E out \in OkFail : Driver("conn.Rollback", DriverRollback(db, out))

ConnExec ==
    \E query \in Queries, out \in OkFail :
        ExecHandler(DriverExec(db, query, out), query, MaxDriverFaults)

ConnPing == \E out \in OkFail : Driver("conn.Ping", DriverPing(db, out))

ConnClose ==
    \E o1 \in OkFail, out \in OkFail :
        StmtHandler("conn.Close", DriverClose(db, st, rows, o1, out))

\* the client prepares its statement (once, or again after it is finalized
\* and its Rows are closed)
ConnPrepareStmt ==
    /\ st.state # "open" /\ ~st.rowsRef
    /\ \E out \in OkFail :
          StmtHandler("conn.Prepare", DriverPrepare(db, st, rows, out))

ConnExecContext ==
    /\ \E ctx \in Uncancelled, o1 \in OkFail, o2 \in OkFail :
          StmtHandler("conn.ExecContext",
                      DriverExecContext(db, st, rows, ctx, o1, o2))

ConnQueryContext ==
    /\ Len(rows) < MaxOpenRows
    /\ \E ctx \in Uncancelled, o1 \in OkFail :
          StmtHandler("conn.QueryContext",
                      DriverQueryContext(db, st, rows, ctx, o1))

\* the handlers of the statement the client prepared
HasStmt == st.state # "none"

StmtClose ==
    /\ HasStmt
    /\ \E ub \in Ub(st) :
          StmtHandler("stmt.Close", DriverStmtClose(db, st, rows, ub))

StmtExecIn(argss, runs) ==
    /\ HasStmt
    /\ \E args \in argss, out \in OkFail, ub \in Ub(st), exec \in runs :
          RunHandler("stmt.Exec",
                     DriverStmtExec(db, st, rows, args, out, ub, exec),
                     "st", "nil", exec, args)

StmtExec == StmtExecIn(OneValue, ShortRuns)

StmtQueryIn(argss) ==
    /\ HasStmt
    /\ Len(rows) < MaxOpenRows
    /\ \E args \in argss, ub \in Ub(st) :
          RunHandler("stmt.Query", DriverStmtQuery(db, st, rows, args, ub),
                     "st", "nil", ShortRun, args)

StmtQuery == StmtQueryIn(OneValue)

StmtExecContextIn(ctxs, argss, runs) ==
    /\ HasStmt
    /\ \E ctx \in ctxs, args \in argss, out \in OkFail, ub \in Ub(st),
          exec \in runs :
          RunHandler("stmt.ExecContext",
                     DriverStmtExecContext(db, st, rows, ctx, args, out, ub, exec),
                     "st", ctx, exec, args)

StmtExecContext == StmtExecContextIn(Uncancelled, OneNamedValue, ShortRuns)

StmtQueryContextIn(ctxs, argss) ==
    /\ HasStmt
    /\ Len(rows) < MaxOpenRows
    /\ \E ctx \in ctxs, args \in argss, ub \in Ub(st) :
          RunHandler("stmt.QueryContext",
                     DriverStmtQueryContext(db, st, rows, ctx, args, ub),
                     "st", ctx, ShortRun, args)

StmtQueryContext == StmtQueryContextIn(Uncancelled, OneNamedValue)

RowsNextIn(runs) ==
    \E i \in DOMAIN rows, step \in {"row", "done", "fail"}, exec \in runs :
      \E ub \in Ub(StmtOf(db, st, rows[i])) :
        RunHandler("rows.Next",
                   DriverRowsNext(db, st, rows, i, step, ub, exec),
                   rows[i].stmt, rows[i].ctx, exec, <<>>)

RowsNext == RowsNextIn(ShortRuns)

RowsClose ==
    \E i \in DOMAIN rows :
      \E ub \in Ub(StmtOf(db, st, rows[i])) :
        RowsHandler("rows.Close", DriverRowsClose(db, st, rows, i, ub),
                    rows[i].stmt)

Next ==
    \/ TransactionEnter
    \/ TransactionExit

Spec == Init /\ [][Next]_vars

DataNext ==
    \/ DataTransactionEnter
    \/ BodyExec
    \/ DataTransactionExit

DataSpec == Init /\ [][DataNext]_vars

\* the transaction handlers alone, with the larger budget of failures
TxBegin ==
    \E out \in OkFail :
        Handler("conn.Begin", OnConn(DriverBegin(db, out)), NoLast.opts, "none", MaxFaults)

TxBeginTx ==
    \E opts \in TxOptions, o1 \in OkFail, o2 \in OkFail, o3 \in OkFail :
        Handler("conn.BeginTx", OnConn(DriverBeginTx(db, opts, o1, o2, o3)),
                opts, "none", MaxFaults)

TxCommit ==
    \E o1 \in Outcomes, o2 \in OkFail :
        Handler("conn.Commit", OnConn(DriverCommit(db, o1, o2)), NoLast.opts, "none", MaxFaults)

TxRollback ==
    \E out \in OkFail :
        Handler("conn.Rollback", OnConn(DriverRollback(db, out)), NoLast.opts, "none", MaxFaults)

TxExec ==
    \E query \in Queries, out \in OkFail :
        ExecHandler(DriverExec(db, query, out), query, MaxFaults)

\* Conn.BeginTransaction called by the client itself, with any type
TxBeginTransaction ==
    \E t \in TransactionTypes \cup OtherTypes, out \in OkFail :
        HandlerInfo("Conn.BeginTransaction", OnConn(BeginTransaction(db, t, out)),
                    NoLast.opts, "none", "nil", ShortRun, "", <<t>>, MaxFaults)

TxNext ==
    \/ TxBegin
    \/ TxBeginTransaction
    \/ TxBeginTx
    \/ TxCommit
    \/ TxRollback
    \/ TxExec

TxSpec == Init /\ [][TxNext]_vars

\* one statement, its Query calls, its Rows and its Close
RowsNextStep ==
    \/ ConnPrepareStmt
    \/ StmtQuery
    \/ StmtClose
    \/ RowsNext
    \/ RowsClose

RowsSpec == Init /\ [][RowsNextStep]_vars

\* one statement run with and without contexts that get cancelled
CancelExec == StmtExecIn(OneValue, Runs)
CancelExecContext == StmtExecContextIn(Contexts, OneNamedValue, Runs)
\* (one Rows at a time here)
CancelQuery == rows = <<>> /\ StmtQueryIn(OneValue)
CancelQueryContext == rows = <<>> /\ StmtQueryContextIn(Contexts, OneNamedValue)
CancelNext == RowsNextIn(Runs)

CancelStep ==
    \/ ConnPrepareStmt
    \/ CancelExec
    \/ CancelExecContext
    \/ CancelQuery
    \/ CancelQueryContext
    \/ CancelNext
    \/ RowsClose

CancelSpec == Init /\ [][CancelStep]_vars

\* the connection closed, with and without statements left on it, and used
\* before and after
CloseStep ==
    \/ ConnPrepareStmt
    \/ ConnExecContext
    \/ ConnExec
    \/ StmtClose
    \/ ConnClose

CloseSpec == Init /\ [][CloseStep]_vars

DriverNext ==
    \/ ConnBegin
    \/ ConnBeginTx
    \/ ConnCommit
    \/ ConnRollback
    \/ ConnExec
    \/ ConnPing
    \/ ConnClose
    \/ ConnPrepareStmt
    \/ ConnExecContext
    \/ ConnQueryContext
    \/ StmtClose
    \/ StmtExec
    \/ StmtQuery
    \/ StmtExecContext
    \/ StmtQueryContext
    \/ RowsNext
    \/ RowsClose

DriverSpec == Init /\ [][DriverNext]_vars

(***************************************************************************)
(* Properties of Conn.Transaction                                          *)
(***************************************************************************)
Verbs(sent) == {sent[i].sql.verb : i \in DOMAIN sent}
Failed(sent) == {i \in DOMAIN sent : sent[i].rv # SQLITE_OK}
Returned(op) == last.op = op

\* C1: a Conn.Transaction call whose BEGIN or SAVEPOINT succeeded increments
\* nTransaction once before the body and decrements it once after it, so
\* nTransaction is back at its value before the call when the call returns,
\* whatever the body returned and whatever the cleanup statements did.
C1_DepthRestored ==
    /\ (Returned("TransactionEnter") /\ last.begun) =>
            (last.incs = 1 /\ nTransaction = Inc(last.entryN))
    /\ (Returned("Transaction") /\ last.begun) =>
            (last.incs = 1 /\ last.decs = 1 /\ nTransaction = last.entryN)

\* a nested call whose body failed and whose rollback statement failed too
C1_Witness ==
    /\ Returned("Transaction") /\ last.begun
    /\ last.bodyErr # Nil
    /\ last.entryN >= 1
    /\ Failed(last.sent) # {}

CommitSucceeded(sent) ==
    /\ Len(sent) = 1
    /\ sent[1].sql = Sql("COMMIT", NoArg)
    /\ sent[1].rv = SQLITE_OK

C4_InnerRollbackOnly ==
    (Returned("Transaction") /\ last.bodyErr = AppError /\ nTransaction >= 1
        /\ last.outerOpen) =>
        /\ "ROLLBACK" \notin Verbs(last.sent)
        /\ last.sent[1].sql = Sql("ROLLBACK TO", Itoa(nTransaction))
        /\ ~GetAutocommit(db)
        /\ last.entryData \subseteq db.data
        /\ (last.sent[1].rv = SQLITE_OK => db.data = last.entryData)

\* the outer level wrote a row, the nested body wrote another and failed
C4_Witness ==
    /\ Returned("Transaction") /\ last.bodyErr = AppError /\ nTransaction >= 1
    /\ last.outerOpen
    /\ last.entryData # {}
    /\ last.bodyData # last.entryData
    /\ db.data = last.entryData

\* C5 as stated: a body that fails with the ConnError of a failed engine
\* call makes the cleanup issue a full ROLLBACK, at any depth.
C5_ConnErrorForcesRollback ==
    (Returned("Transaction") /\ last.bodyErr.type = "ConnError") =>
        "ROLLBACK" \in Verbs(last.sent)

\* C6 as stated: when the body succeeded and the COMMIT or the RELEASE
\* failed, Conn.Transaction returns that error.
C6_CommitErrorReturned ==
    (Returned("Transaction") /\ last.bodyErr = Nil
        /\ last.sent[1].rv # SQLITE_OK) =>
        last.ret = error(last.sent[1].rv, last.sent[1].sql.verb)

\* C7: when the COMMIT of Conn.Commit fails, the error returned is the
\* COMMIT error; if the connection is then not in autocommit mode exactly
\* one ROLLBACK follows (whatever its result), and if it is in autocommit
\* mode nothing follows.
C7_CommitErrorKept ==
    (Returned("conn.Commit") /\ last.sent[1].rv # SQLITE_OK) =>
        /\ last.sent[1].sql = Sql("COMMIT", NoArg)
        /\ last.ret = error(last.sent[1].rv, "COMMIT")
        /\ IF last.sent[1].auto
           THEN Len(last.sent) = 1
           ELSE /\ Len(last.sent) = 2
                /\ last.sent[2].sql = Sql("ROLLBACK", NoArg)

\* the COMMIT failed with the transaction open, and the ROLLBACK failed too
C7_Witness ==
    /\ Returned("conn.Commit")
    /\ Len(last.sent) = 2
    /\ last.sent[1].rv # SQLITE_OK /\ ~last.sent[1].auto
    /\ last.sent[2].rv # SQLITE_OK
    /\ last.ret = error(last.sent[1].rv, "COMMIT")

\* C8 as stated: conn.BeginTx with an isolation level that is not
\* supported fails without a statement sent to the engine, the settings of
\* the connection as they were.
C8_UnsupportedIsolationNoEffect ==
    (Returned("conn.BeginTx")
        /\ last.opts.Isolation \notin
               {"LevelDefault", "LevelSerializable", "LevelReadUncommitted"}) =>
        /\ last.ret # Nil
        /\ last.sent = <<>>
        /\ db = last.pre

\* the operations C9 lists
ClosedOps ==
    {"conn.Ping", "conn.Exec", "conn.Prepare", "conn.ExecContext",
     "conn.QueryContext", "conn.Begin", "conn.BeginTx", "conn.Commit",
     "conn.Rollback", "stmt.Exec", "stmt.Query", "rows.Next"}

\* C9 as stated: a Close that succeeded leaves the connection closed, and
\* each listed operation called on a closed connection returns
\* driver.ErrBadConn without a native call.
C9_ClosedFailsFast ==
    /\ (Returned("conn.Close") /\ last.ret = Nil) => IsClosed(db)
    /\ (last.op \in ClosedOps /\ last.wasClosed) =>
            (last.ret = ErrBadConn /\ last.sent = <<>>)

\* C10 as stated: stmt.Query or stmt.QueryContext called while a Rows of
\* the statement is open fails with "previously returned Rows still not
\* closed", bindings, step position and open Rows as they were.
C10_SecondQueryRejected ==
    (last.op \in {"stmt.Query", "stmt.QueryContext"} /\ last.preSt.rowsRef) =>
        /\ last.ret = ErrorsNew("previously returned Rows still not closed")
        /\ st = last.preSt
        /\ rows = last.preRows

\* a Rows of the client's statement is open
RowsOpen == \E i \in DOMAIN rows : rows[i].stmt = "st"

Interrupt == error(ErrInterrupt, "step")
\* the handlers that run a statement
RunOps == {"stmt.Exec", "stmt.ExecContext", "rows.Next"}
\* the step calls of the last handler whose statement was live, each with the
\* polls it made
Steps ==
    {i \in DOMAIN last.sent : /\ last.sent[i].sql.verb = "sqlite3_step"
                              /\ last.sent[i].sql.arg # NoArg}

\* C12: when stmt.ExecContext or a context-bound rowsImpl.Next has returned,
\* on whatever path (normal, engine error, cancellation, binding error), the
\* connection has no progress hook; and a statement run without a context,
\* or with a context that is not cancelled by the end of the run, is not
\* interrupted.
C12_HookUninstalled ==
    /\ (Returned("stmt.ExecContext") \/ (Returned("rows.Next") /\ last.ctx # "nil"))
            => db.hook = "none"
    /\ (last.op \in RunOps
            /\ (last.ctx = "nil" \/ CtxAfter(last.ctx, last.exec) = "live"))
            => /\ last.ret # Interrupt
               /\ \A i \in DOMAIN last.sent : last.sent[i].rv # ErrInterrupt

\* a cancelled stmt.ExecContext has returned the interrupt
C12_Witness ==
    /\ Returned("stmt.ExecContext")
    /\ last.ctx = "live" /\ last.exec.cancelAt <= last.exec.polls
    /\ last.ret = Interrupt
    /\ db.hook = "none"

\* the poll at which the context of the last handler is first seen done
FirstDone == IF last.ctx = "cancelled" THEN 1 ELSE last.exec.cancelAt

\* C13: a statement running under a context that is cancelled by one of the
\* polls of the run is aborted by the first poll that follows the
\* cancellation and ends with the interrupt error; under a context that is
\* not cancelled by then, without a hook, or with a payload that is no
\* context, no poll asks for the abort.
C13_AbortAtFirstPoll ==
    /\ \A i \in Steps :
          IF last.ctx # "nil" /\ FirstDone <= last.exec.polls
          THEN /\ last.sent[i].rv = ErrInterrupt
               /\ last.sent[i].sql.arg = <<FirstDone>>
               /\ last.ret = Interrupt
          ELSE /\ last.sent[i].rv # ErrInterrupt
               /\ last.ret # Interrupt
               /\ last.sent[i].sql.arg =
                      <<IF last.ctx = "nil" THEN 0 ELSE last.exec.polls>>
    /\ \A done \in BOOLEAN : ~progressHandler([ctx |-> FALSE, done |-> done])

\* cancelled before the second of two polls, the statement was aborted there
C13_Witness ==
    /\ last.op \in RunOps /\ last.ctx = "live"
    /\ last.exec.polls = 2 /\ last.exec.cancelAt = 2
    /\ \E i \in Steps : last.sent[i].sql.arg = <<2>> /\ last.sent[i].rv = ErrInterrupt
    /\ last.ret = Interrupt
\* C14: Conn.Close on a connection that is already closed returns nil and
\* makes no native call (so closing twice returns no error both times), and
\* leaves everything as it was.
C14_CloseIdempotent ==
    (Returned("conn.Close") /\ last.wasClosed) =>
        /\ last.ret = Nil
        /\ last.sent = <<>>
        /\ IsClosed(db)

\* (no statement was touched either: conn.Close has nothing in preSt, so the
\* witness is the second Close of a connection whose statement was left open
\* at the first)
C14_Witness ==
    /\ Returned("conn.Close") /\ last.wasClosed
    /\ last.ret = Nil /\ last.sent = <<>>
    /\ st.state = "dangling"

Closes == {i \in DOMAIN last.sent : last.sent[i].sql.verb = "sqlite3_close"}
Finalizes == {i \in DOMAIN last.sent : last.sent[i].sql.verb = "sqlite3_finalize"}

\* C15: Conn.Close on an open connection flushes the statement cache, then
\* calls the native close; only when that reports busy it finalizes every
\* live native statement and calls the native close once more.  There are
\* at most two native close calls; the error of the last one is returned and
\* the handle kept, and the handle is cleared only after a native close that
\* reported OK.
C15_CloseProtocol ==
    (Returned("conn.Close") /\ ~last.wasClosed) =>
        LET n == Len(last.sent)
            rv == last.sent[n].rv
        IN  /\ n >= 2
            /\ last.sent[1].sql.verb = "stmtCache.flush"
            /\ Closes \in {{2}, {2, n}}
            /\ Finalizes = 3..(n - 1)
            /\ (n > 2) <=> (last.sent[2].rv = ErrBusy)
            /\ (n > 2) => (Finalizes # {} /\ st.state # "open" /\ ~db.temps)
            /\ last.ret = error(rv, "Conn.Close")
            /\ IsClosed(db) <=> (rv = SQLITE_OK)

\* busy, the statements finalized, and the second native close failed
C15_Witness ==
    /\ Returned("conn.Close") /\ ~last.wasClosed
    /\ Len(last.sent) = 5
    /\ last.sent[5].rv = ErrBusy
    /\ last.ret = error(ErrBusy, "Conn.Close")
    /\ ~IsClosed(db)
\* C20: conn.Exec of the text "unwrap" without arguments never reaches the
\* engine: on an open connection it returns the error value that carries
\* the native handle and changes nothing, on a closed connection it returns
\* the bad-connection error.
C20_UnwrapEscapeHatch ==
    (Returned("conn.Exec") /\ last.query = "unwrap") =>
        /\ last.sent = <<>>
        /\ db = last.pre
        /\ last.ret = IF last.wasClosed THEN ErrBadConn ELSE UnwrapError

\* on an open connection with a statement left by conn.ExecContext
C20_Witness ==
    /\ Returned("conn.Exec") /\ last.query = "unwrap"
    /\ ~last.wasClosed /\ last.pre.temps
    /\ last.ret = UnwrapError
\* the handlers that bind, and the values the arguments of the last one give
\* to parameter i
BindOps == {"stmt.Exec", "stmt.Query", "stmt.ExecContext", "stmt.QueryContext"}
GivenTo(i) ==
    IF last.op \in {"stmt.Exec", "stmt.Query"}
    THEN {last.args[k] : k \in {k \in DOMAIN last.args : k = i}}
    ELSE {last.args[k].Value :
            k \in {k \in DOMAIN last.args :
                      i = IF last.args[k].Name = 0 THEN last.args[k].Ordinal
                          ELSE BindParameterIndex(last.preSt, last.args[k].Name).index}}

\* C16: after Exec, Query, ExecContext or QueryContext bound its arguments
\* on a live statement and returned without error, every parameter of the
\* statement holds a value the arguments give it, or no value.
C16_BindReplaces ==
    (last.op \in BindOps /\ last.preSt.state = "open" /\ last.ret = Nil) =>
        \A i \in 1..NumParams : st.bound[i] \in GivenTo(i) \cup {"null"}
NestedError == ErrorsNew("Nested transcations are not supported")

\* C17: conn.BeginTx on an open connection that is not in autocommit mode
\* returns the nested-transactions error, sends nothing to the engine (no
\* PRAGMA, no BEGIN) and leaves the connection and its open transaction as
\* they were.
C17_NestedBeginTxRejected ==
    (Returned("conn.BeginTx") /\ ~last.wasClosed /\ ~GetAutocommit(last.pre)) =>
        /\ last.ret = NestedError
        /\ last.sent = <<>>
        /\ db = last.pre
        /\ ~GetAutocommit(db)

\* rejected with options that would have changed the connection
C17_Witness ==
    /\ Returned("conn.BeginTx") /\ ~GetAutocommit(last.pre)
    /\ last.opts.ReadOnly /\ last.opts.Isolation = "LevelReadUncommitted"
    /\ last.ret = NestedError
    /\ ~db.queryOnly /\ ~db.readUncommitted

\* C18: rowsImpl.Close of the Rows of a live statement clears rowsRef; with
\* no pending close it resets the statement (one native reset, nothing
\* finalized) and stmt.Query then accepts any arguments the statement has
\* parameters for; with a pending close it finalizes the statement and does
\* not reset it.
C18_RowsCloseResetsOrFinalizes ==
    (Returned("rows.Close") /\ last.target = "st" /\ last.preSt.state = "open") =>
        /\ ~st.rowsRef
        /\ IF last.preSt.pendingClose
           THEN /\ Verbs(last.sent) = {"sqlite3_finalize"}
                /\ st.state = "finalized"
           ELSE /\ Verbs(last.sent) = {"sqlite3_reset"}
                /\ last.ret = Nil
                /\ st.state = "open" /\ st.pos = "reset"
                /\ \A a \in Args :
                      Len(a) <= NumParams =>
                          DriverStmtQuery(db, st, rows, a, "ok").err = Nil

\* a Rows that had been stepped, on a statement with a bound value, closed
\* without pending close
C18_Witness ==
    /\ Returned("rows.Close") /\ last.target = "st"
    /\ last.preSt.state = "open" /\ ~last.preSt.pendingClose
    /\ last.preSt.pos = "row" /\ last.preSt.bound[1] = "a"
    /\ st.pos = "reset" /\ ~st.rowsRef

\* the messages of the errors the driver adapter makes up itself
LayerMessages ==
    {"Nested transcations are not supported",
     "Isolation level is not supported.",
     "previously returned Rows still not closed"}

\* C19: an error the adapter makes up itself (nested transaction,
\* unsupported isolation level, Rows still open) is the wrapper-specific
\* error with the code ErrSpecific.
C19_LayerErrorsSpecific ==
    last.ret.msg \in LayerMessages => last.ret = specificError(last.ret.msg)
\* the statement Conn.BeginTransaction sends for each supported type
BeginOf(t) ==
    IF t = Deferred THEN Sql("BEGIN", NoArg)
    ELSE IF t = Immediate THEN Sql("BEGIN IMMEDIATE", NoArg)
    ELSE Sql("BEGIN EXCLUSIVE", NoArg)

\* C21: Conn.BeginTransaction with a type other than deferred, immediate or
\* exclusive panics instead of returning an error and sends nothing to the
\* engine; with one of the three types it sends exactly the BEGIN of that
\* type and returns what the engine answered.
C21_UnsupportedTypePanics ==
    Returned("Conn.BeginTransaction") =>
        LET t == last.args[1]
        IN  IF t \in {Deferred, Immediate, Exclusive}
            THEN /\ Len(last.sent) = 1
                 /\ last.sent[1].sql = BeginOf(t)
                 /\ last.ret = error(last.sent[1].rv, BeginOf(t).verb)
            ELSE /\ last.ret.type = "panic"
                 /\ last.sent = <<>>
                 /\ db = last.pre

\* the panic, on a connection with a transaction open
C21_Witness ==
    /\ Returned("Conn.BeginTransaction")
    /\ last.args[1] \notin {Deferred, Immediate, Exclusive}
    /\ last.ret.type = "panic"
    /\ ~GetAutocommit(db)
\* C22 as stated, its last part: a COMMIT or a ROLLBACK of the whole
\* transaction is sent only by the Conn.Transaction call that sent BEGIN.
C22_WholeTransactionEndedByBeginCall ==
    (Returned("Transaction") /\ Verbs(last.sent) \cap {"COMMIT", "ROLLBACK"} # {})
        => last.entryN = 0

\* C22 as amended: Conn.Transaction sends BEGIN exactly when nTransaction is
\* 0 on entry and SAVEPOINT named by the decimal value of nTransaction
\* otherwise; the RELEASE and ROLLBACK TO it sends when it unwinds carry the
\* name of that SAVEPOINT; COMMIT is sent only by the call that sent BEGIN,
\* and ROLLBACK by that call or by a nested call whose RELEASE failed or
\* whose body returned a *ConnError.
C22_MirrorImage ==
    /\ Returned("TransactionEnter") =>
            /\ Len(last.sent) = 1
            /\ IF last.entryN = 0 THEN last.sent[1].sql.verb \in BeginVerbs
               ELSE last.sent[1].sql = Sql("SAVEPOINT", Itoa(last.entryN))
    /\ Returned("Transaction") =>
            /\ \A i \in DOMAIN last.sent :
                  last.sent[i].sql.verb \in {"RELEASE", "ROLLBACK TO"} =>
                      /\ last.entryN >= 1
                      /\ last.sent[i].sql.arg = Itoa(last.entryN)
            /\ "COMMIT" \in Verbs(last.sent) => last.entryN = 0
            /\ last.entryN = 0 => Verbs(last.sent) \subseteq {"COMMIT", "ROLLBACK"}
            /\ ("ROLLBACK" \in Verbs(last.sent) /\ last.entryN >= 1) =>
                  \/ IsPtrConnError(last.bodyErr)
                  \/ /\ last.bodyErr = Nil
                     /\ last.sent[1].sql = Sql("RELEASE", Itoa(last.entryN))
                     /\ last.sent[1].rv # SQLITE_OK

\* a call nested two deep released its savepoint, the RELEASE failed and the
\* call rolled the whole transaction back
C22_Witness ==
    /\ Returned("Transaction") /\ last.entryN = 2 /\ last.bodyErr = Nil
    /\ Len(last.sent) = 2
    /\ last.sent[1].sql = Sql("RELEASE", Itoa(2)) /\ last.sent[1].rv # SQLITE_OK
    /\ last.sent[2].sql.verb = "ROLLBACK"
\* C23: when the body of a nested Conn.Transaction call fails (with an error
\* that is not a *ConnError, nTransaction >= 1 after the decrement), the
\* call sends ROLLBACK TO SAVEPOINT and then RELEASE for its savepoint,
\* whether they fail or not, and returns the error of the body.
C23_RollbackToThenRelease ==
    (Returned("Transaction") /\ last.bodyErr # Nil /\ last.entryN >= 1
        /\ ~IsPtrConnError(last.bodyErr)) =>
        /\ Len(last.sent) = 2
        /\ last.sent[1].sql = Sql("ROLLBACK TO", Itoa(last.entryN))
        /\ last.sent[2].sql = Sql("RELEASE", Itoa(last.entryN))
        /\ last.ret = last.bodyErr

\* C24: when the BEGIN or SAVEPOINT of a Conn.Transaction call fails, the
\* call returns that error at once: the body is not called, nTransaction is
\* not incremented, and nothing but the failed statement was sent (no
\* COMMIT, RELEASE or ROLLBACK).
C24_BeginFailureReturned ==
    (Returned("TransactionEnter") /\ last.sent[1].rv # SQLITE_OK) =>
        /\ ~last.begun
        /\ last.ret = error(last.sent[1].rv, last.sent[1].sql.verb)
        /\ last.incs = 0 /\ nTransaction = last.entryN
        /\ Depth = last.entryN
        /\ Len(last.sent) = 1
        /\ last.sent[1].sql.verb \in BeginVerbs \cup {"SAVEPOINT"}

\* the SAVEPOINT of a nested call failed
C24_Witness ==
    /\ Returned("TransactionEnter") /\ last.sent[1].rv # SQLITE_OK
    /\ last.sent[1].sql = Sql("SAVEPOINT", Itoa(2))
    /\ nTransaction = 2 /\ Depth = 2 /\ last.ret # Nil

\* C25: between the steps of Conn.Transaction, while the engine's
\* transaction is open, the savepoints on the engine's stack are as many as
\* the nested calls under way, max(nTransaction - 1, 0).
C25_SavepointsMatchDepth ==
    ~GetAutocommit(db) => Len(db.sp) = Max(nTransaction - 1, 0)
\* C26: the statements conn.ExecContext and conn.QueryContext prepare for
\* themselves are released by the time the call has returned and its Rows
\* is closed: a Conn.Close that comes when the client holds no Rows and no
\* live statement finds nothing to finalize and calls the native close once.
C26_NoDanglingStatementAtClose ==
    (Returned("conn.Close") /\ ~last.wasClosed
        /\ rows = <<>> /\ st.state \in {"none", "finalized"}) =>
        /\ Finalizes = {}
        /\ Closes = {2}
====
